---- MODULE Spec2Model ----
(***************************************************************************)
(* A model of src/Meet.py: the date-string parsing, get_stock_price,       *)
(* check_target_or_sl_first and the batch loop and summary of main.        *)
(*                                                                         *)
(* Prices are integers (price units); percentages are integers.  Dates     *)
(* are proleptic Gregorian (year, month, day) records, and day arithmetic  *)
(* is done on their ordinals, as datetime does it.                         *)
(***************************************************************************)
EXTENDS Integers, Sequences, FiniteSets, TLC

VARIABLES
    source,     \* the price source: the set of daily bars it holds for the symbol
    call,       \* the inputs: a function call's arguments, or main's table and percentages
    ret,        \* what that call returned ("pending" before it ran)
    df,         \* the request table of main: a sequence of rows
    idx,        \* the index of the loop iteration of main, from 0
    progress,   \* the row count k last handed to progress_bar / status_text
    cache,      \* st.cache_data of get_stock_price: (symbol, date) -> returned value
    writes,     \* per row, how many times df.at[idx, 'result'] was assigned
    phase,      \* where main is: "report", "evaluate", "stats", "pnl", "done", "error"
    summary     \* the statistics main computed

vars == <<source, call, ret, df, idx, progress, cache, writes, phase, summary>>

(***************************************************************************)
(* Calendar: datetime(y, m, d), its validity and its ordinal.              *)
(***************************************************************************)
IsLeap(y) == (y % 4 = 0) /\ ((y % 100 # 0) \/ (y % 400 = 0))

DaysInMonth(y, m) ==
    IF m = 2 THEN (IF IsLeap(y) THEN 29 ELSE 28)
    ELSE IF m \in {4, 6, 9, 11} THEN 30 ELSE 31

RECURSIVE DaysBeforeMonth(_, _)
DaysBeforeMonth(y, m) ==
    IF m = 1 THEN 0 ELSE DaysBeforeMonth(y, m - 1) + DaysInMonth(y, m - 1)

DaysBeforeYear(y) ==
    (y - 1) * 365 + ((y - 1) \div 4) - ((y - 1) \div 100) + ((y - 1) \div 400)

\* the ordinal of a datetime value; timedelta(days=n) adds n to it
ToOrdinal(dt) == DaysBeforeYear(dt.y) + DaysBeforeMonth(dt.y, dt.m) + dt.d

\* datetime(y, m, d) raises ValueError unless the day exists in the month
ValidDate(y, m, d) == m \in 1..12 /\ d >= 1 /\ d <= DaysInMonth(y, m)

Datetime(y, m, d) == [kind |-> "dt", y |-> y, m |-> m, d |-> d]

(***************************************************************************)
(* Date strings.  A string is three digit groups and two separators:       *)
(* f1 s1 f2 s2 f3.  A digit group is its value v and its digit count n,    *)
(* so "05" is (5, 2) and "2023" is (2023, 4).                              *)
(***************************************************************************)
Field(v, n) == [v |-> v, n |-> n]

DateStr(f1, s1, f2, s2, f3) ==
    [kind |-> "str", f1 |-> f1, s1 |-> s1, f2 |-> f2, s2 |-> s2, f3 |-> f3]

\* '/' in date, '-' in date
Contains(s, ch) == s.s1 = ch \/ s.s2 = ch

\* strptime directives: %d is 1-2 digits 1..31 (01..31), %m is 1-2 digits 1..12,
\* %Y is exactly four digits
MatchesD(f) == f.n \in {1, 2} /\ f.v >= 1 /\ f.v <= 31 /\ (f.n = 1 => f.v <= 9)
MatchesM(f) == f.n \in {1, 2} /\ f.v >= 1 /\ f.v <= 12 /\ (f.n = 1 => f.v <= 9)
MatchesY(f) == f.n = 4

Raise == [kind |-> "raise"]

\* datetime.strptime(s, '%d<sep>%m<sep>%Y'): a datetime, or ValueError
StrptimeDMY(s, sep) ==
    IF /\ s.s1 = sep /\ s.s2 = sep
       /\ MatchesD(s.f1) /\ MatchesM(s.f2) /\ MatchesY(s.f3)
       /\ ValidDate(s.f3.v, s.f2.v, s.f1.v)
    THEN Datetime(s.f3.v, s.f2.v, s.f1.v)
    ELSE Raise

\* datetime.strptime(s, '%m/%d/%Y')
StrptimeMDY(s, sep) ==
    IF /\ s.s1 = sep /\ s.s2 = sep
       /\ MatchesM(s.f1) /\ MatchesD(s.f2) /\ MatchesY(s.f3)
       /\ ValidDate(s.f3.v, s.f1.v, s.f2.v)
    THEN Datetime(s.f3.v, s.f1.v, s.f2.v)
    ELSE Raise

\* datetime.strptime(s, '%Y-%m-%d')
StrptimeYMD(s, sep) ==
    IF /\ s.s1 = sep /\ s.s2 = sep
       /\ MatchesY(s.f1) /\ MatchesM(s.f2) /\ MatchesD(s.f3)
       /\ ValidDate(s.f1.v, s.f2.v, s.f3.v)
    THEN Datetime(s.f1.v, s.f2.v, s.f3.v)
    ELSE Raise

\* the fallback chain of the except branch: '%m/%d/%Y', then '%Y-%m-%d', whose
\* ValueError leaves the block
ParseAlternative(s) ==
    IF StrptimeMDY(s, "/") # Raise THEN StrptimeMDY(s, "/")
    ELSE StrptimeYMD(s, "-")

\* ParseDate with the month-first format also tried for dashes
ParseDate_DashMonthFirst(date) ==
    IF date.kind # "str" THEN date
    ELSE IF Contains(date, "/") THEN
        (IF StrptimeDMY(date, "/") # Raise THEN StrptimeDMY(date, "/")
         ELSE ParseAlternative(date))
    ELSE IF Contains(date, "-") THEN
        (IF StrptimeDMY(date, "-") # Raise THEN StrptimeDMY(date, "-")
         ELSE IF StrptimeMDY(date, "-") # Raise THEN StrptimeMDY(date, "-")
         ELSE ParseAlternative(date))
    ELSE date

\* get_stock_price, "Convert date string to datetime": the value of `date`
\* after the block (a datetime, or the string itself when it holds neither
\* separator), or Raise when the last strptime raised
ParseDate(date) ==
    IF date.kind # "str" THEN date
    ELSE IF Contains(date, "/") THEN
        (IF StrptimeDMY(date, "/") # Raise THEN StrptimeDMY(date, "/")
         ELSE ParseAlternative(date))
    ELSE IF Contains(date, "-") THEN
        (IF StrptimeDMY(date, "-") # Raise THEN StrptimeDMY(date, "-")
         ELSE ParseAlternative(date))
    ELSE date

\* check_target_or_sl_first, "Convert date if string": the same block again
ParseEntryDate(entry_date) ==
    IF entry_date.kind # "str" THEN entry_date
    ELSE IF Contains(entry_date, "/") THEN
        (IF StrptimeDMY(entry_date, "/") # Raise THEN StrptimeDMY(entry_date, "/")
         ELSE ParseAlternative(entry_date))
    ELSE IF Contains(entry_date, "-") THEN
        (IF StrptimeDMY(entry_date, "-") # Raise THEN StrptimeDMY(entry_date, "-")
         ELSE ParseAlternative(entry_date))
    ELSE entry_date

(***************************************************************************)
(* The price source (yfinance).  A bar is one trading day of the           *)
(* instrument: its date (an ordinal) and its High, Low and Close.          *)
(***************************************************************************)
Bar(date, high, low, close) ==
    [date |-> date, High |-> high, Low |-> low, Close |-> close]

\* the instrument the source lists, and the two ways a request names it
Instrument == <<"TCS", ".NS">>
Symbols == {<<"TCS">>, <<"TCS", ".NS">>}

\* "Add .NS for NSE stocks if not already present"
SymbolFormatted(symbol) ==
    IF symbol[Len(symbol)] = ".NS" THEN symbol ELSE Append(symbol, ".NS")

RECURSIVE SortByDate(_)
SortByDate(S) ==
    IF S = {} THEN <<>>
    ELSE LET b == CHOOSE x \in S : \A c \in S : x.date <= c.date
         IN  <<b>> \o SortByDate(S \ {b})

\* yf.Ticker(symbol_formatted).history(start=start_date, end=end_date): the
\* daily bars dated start_date <= d < end_date (yfinance's end is exclusive),
\* in date order; empty for an instrument the source does not list
History(src, symbol_formatted, start_date, end_date) ==
    IF symbol_formatted # Instrument THEN <<>>
    ELSE SortByDate({b \in src : b.date >= start_date /\ b.date < end_date})

None == [kind |-> "none"]
Price(v) == [kind |-> "price", v |-> v]

\* the window get_stock_price asks for
WindowDays == 7

\* get_stock_price, "Find the closest trading day": the bar of the target
\* date when the data has one; otherwise the date_diff line, where
\* (data.index.date - date.date()) is a numpy array and has no attribute
\* days, so that AttributeError reaches the function's except and the result
\* is None
ClosestTradingDay(data, target) ==
    IF \E i \in 1..Len(data) : data[i].date = target
    THEN Price(data[CHOOSE i \in 1..Len(data) : data[i].date = target].Close)
    ELSE None

\* get_stock_price(symbol, date) on a cache miss; fetch_raises is whether the
\* price source raises on this call.  Every exception becomes None.
get_stock_price(src, symbol, date, fetch_raises) ==
    LET d == ParseDate(date) IN
    IF d.kind # "dt" THEN None     \* strptime raised, or str - timedelta did
    ELSE IF fetch_raises THEN None
    ELSE LET data == History(src, SymbolFormatted(symbol),
                             ToOrdinal(d) - WindowDays, ToOrdinal(d) + WindowDays)
         IN  IF data = <<>> THEN None
             ELSE ClosestTradingDay(data, ToOrdinal(d))

\* the horizon check_target_or_sl_first asks for
HorizonDays == 30

\* ScanBars with the stop-loss test ahead of the target test
RECURSIVE ScanBars_StopFirst(_, _, _, _, _)
ScanBars_StopFirst(data, i, entry, target_price, sl_price) ==
    IF i > Len(data) THEN "Neither Hit"
    ELSE IF data[i].date > entry /\ data[i].Low <= sl_price THEN "Stop Loss Hit"
    ELSE IF data[i].date > entry /\ data[i].High >= target_price THEN "Target Hit"
    ELSE ScanBars_StopFirst(data, i + 1, entry, target_price, sl_price)

\* ScanBars that keeps scanning after a hit, so that the last crossing wins
RECURSIVE ScanBars_LastWins(_, _, _, _, _)
ScanBars_LastWins(data, i, entry, target_price, sl_price) ==
    IF i > Len(data) THEN "Neither Hit"
    ELSE LET rest == ScanBars_LastWins(data, i + 1, entry, target_price, sl_price)
         IN  IF rest # "Neither Hit" THEN rest
             ELSE IF data[i].date > entry /\ data[i].High >= target_price
                  THEN "Target Hit"
             ELSE IF data[i].date > entry /\ data[i].Low <= sl_price
                  THEN "Stop Loss Hit"
             ELSE "Neither Hit"

\* check_target_or_sl_first, "Check each day after entry": the bars from
\* position i on, in order
RECURSIVE ScanBars(_, _, _, _, _)
ScanBars(data, i, entry, target_price, sl_price) ==
    IF i > Len(data) THEN "Neither Hit"
    ELSE IF data[i].date > entry /\ data[i].High >= target_price THEN "Target Hit"
    ELSE IF data[i].date > entry /\ data[i].Low <= sl_price THEN "Stop Loss Hit"
    ELSE ScanBars(data, i + 1, entry, target_price, sl_price)

\* check_target_or_sl_first(symbol, entry_date, entry_price, target_price,
\* sl_price); every exception becomes an "Error: ..." string, modelled "Error"
check_target_or_sl_first(src, symbol, entry_date, target_price, sl_price, fetch_raises) ==
    LET d == ParseEntryDate(entry_date) IN
    IF d.kind # "dt" THEN "Error"
    ELSE IF fetch_raises THEN "Error"
    ELSE LET data == History(src, SymbolFormatted(symbol),
                             ToOrdinal(d), ToOrdinal(d) + HorizonDays)
         IN  IF data = <<>> THEN "No Data"
             ELSE ScanBars(data, 1, ToOrdinal(d), target_price, sl_price)

(***************************************************************************)
(* Inputs.                                                                 *)
(***************************************************************************)
\* most bars a price source holds
MaxBars == 2

\* one trading day's prices: a quiet day, a day whose High is exactly the
\* 3 % target of a 10000 entry, one whose Low is exactly its 2 % stop, and a
\* day that spans both
BarShapes ==
    { [High |-> 10200, Low |-> 9900, Close |-> 10000],
      [High |-> 10300, Low |-> 9900, Close |-> 10200],
      [High |-> 10100, Low |-> 9800, Close |-> 9900],
      [High |-> 10400, Low |-> 9700, Close |-> 10100] }

\* the sources holding at most MaxBars bars, on days base + o for o in offsets
Sources(base, offsets) ==
    UNION { { { Bar(base + o, f[o].High, f[o].Low, f[o].Close) : o \in Ds }
              : f \in [Ds -> BarShapes] }
            : Ds \in { X \in SUBSET offsets : Cardinality(X) <= MaxBars } }

Pending == [state |-> "pending"]
Returned(by, val, raised) ==
    [state |-> "returned", by |-> by, val |-> val, raised |-> raised]

NoBatch ==
    /\ df = <<>> /\ idx = 0 /\ progress = 0 /\ cache = <<>> /\ writes = <<>>
    /\ phase = "idle" /\ summary = [state |-> "none"]

(***************************************************************************)
(* SpecParse: the two date-parsing blocks applied to date strings.         *)
(***************************************************************************)
SmallFields ==
    { Field(v, 1) : v \in {1, 2} } \cup
    { Field(v, 2) : v \in {0, 1, 2, 12, 13, 25, 29, 30, 31, 32} }
YearFields == { Field(2023, 4), Field(2024, 4) }
Separators == {"/", "-", "."}

DateStrings ==
    { DateStr(f1, s1, f2, s2, f3) :
        f1 \in SmallFields \cup YearFields, s1 \in Separators,
        f2 \in SmallFields, s2 \in Separators,
        f3 \in SmallFields \cup YearFields }

InitParse ==
    /\ source = {}
    /\ call \in { [date |-> s] : s \in DateStrings }
    /\ ret = Pending
    /\ NoBatch

ParseInGetStockPrice ==
    /\ ret = Pending
    /\ ret' = Returned("get_stock_price", ParseDate(call.date), FALSE)
    /\ UNCHANGED <<source, call, df, idx, progress, cache, writes, phase, summary>>

ParseInCheck ==
    /\ ret = Pending
    /\ ret' = Returned("check_target_or_sl_first", ParseEntryDate(call.date), FALSE)
    /\ UNCHANGED <<source, call, df, idx, progress, cache, writes, phase, summary>>

NextParse == ParseInGetStockPrice \/ ParseInCheck

SpecParse == InitParse /\ [][NextParse]_vars

(***************************************************************************)
(* SpecPrice: one call of get_stock_price on a cold cache.                 *)
(***************************************************************************)
\* 25 December 2023, as a Timestamp, as a day-first string, and as a
\* month-first string with dashes
BaseDate == Datetime(2023, 12, 25)
BaseDateSlash ==
    DateStr(Field(25, 2), "/", Field(12, 2), "/", Field(2023, 4))
BaseDateDashUS ==
    DateStr(Field(12, 2), "-", Field(25, 2), "-", Field(2023, 4))
BaseOrd == ToOrdinal(BaseDate)

PriceOffsets == {-8, -7, -1, 0, 1, 6, 7, 8}

InitPrice ==
    /\ source \in Sources(BaseOrd, PriceOffsets)
    /\ call \in { [symbol |-> sy, date |-> d] :
                    sy \in Symbols, d \in {BaseDate, BaseDateSlash, BaseDateDashUS} }
    /\ ret = Pending
    /\ NoBatch

CallGetStockPrice ==
    /\ ret = Pending
    /\ \E fetch_raises \in BOOLEAN :
         ret' = Returned("get_stock_price",
                         get_stock_price(source, call.symbol, call.date, fetch_raises),
                         fetch_raises)
    /\ UNCHANGED <<source, call, df, idx, progress, cache, writes, phase, summary>>

NextPrice == CallGetStockPrice

SpecPrice == InitPrice /\ [][NextPrice]_vars

(***************************************************************************)
(* SpecClassify: one call of check_target_or_sl_first.                     *)
(***************************************************************************)
ForwardOffsets == {-1, 0, 1, 2, HorizonDays - 1, HorizonDays, HorizonDays + 1}

\* (target_price, sl_price) pairs: 3 % / 2 % and 4 % / 3 % around 10000
Thresholds == { <<10300, 9800>>, <<10400, 9700>> }

InitClassify ==
    /\ source \in Sources(BaseOrd, ForwardOffsets)
    /\ call \in { [symbol |-> sy, entry_date |-> d,
                   target_price |-> t[1], sl_price |-> t[2]] :
                    sy \in Symbols, d \in {BaseDate, BaseDateSlash, BaseDateDashUS},
                    t \in Thresholds }
    /\ ret = Pending
    /\ NoBatch

CallCheckTargetOrSl ==
    /\ ret = Pending
    /\ \E fetch_raises \in BOOLEAN :
         ret' = Returned("check_target_or_sl_first",
                         check_target_or_sl_first(source, call.symbol, call.entry_date,
                             call.target_price, call.sl_price, fetch_raises),
                         fetch_raises)
    /\ UNCHANGED <<source, call, df, idx, progress, cache, writes, phase, summary>>

NextClassify == CallCheckTargetOrSl

SpecClassify == InitClassify /\ [][NextClassify]_vars

(***************************************************************************)
(* Spec: main, from the uploaded table to the statistics.  The uploaded    *)
(* file holds exactly the four required columns; marketcapname and sector  *)
(* only feed the charts and are left out.                                  *)
(***************************************************************************)
\* most rows an uploaded table holds
MaxRows == 2

\* the sidebar's default percentages
TargetPct == 3
SlPct == 2

\* a string no format reads
GarbageDate ==
    DateStr(Field(32, 2), "/", Field(13, 2), "/", Field(2023, 4))

RowDates == {BaseDate, BaseDateSlash, BaseDateDashUS, GarbageDate}

Requests == { [symbol |-> sy, date |-> d] : sy \in Symbols, d \in RowDates }

RequestTables == UNION { [1..n -> Requests] : n \in 0..MaxRows }

BatchOffsets == {0, 1}

\* "Initialize new columns"
NewRow(r) ==
    [symbol |-> r.symbol, date |-> r.date, close_price |-> 0, result |-> "Processing..."]

Init ==
    /\ source \in Sources(BaseOrd, BatchOffsets)
    /\ \E t \in RequestTables :
         /\ call = [requests |-> t, target_pct |-> TargetPct, sl_pct |-> SlPct]
         /\ df = [i \in 1..Len(t) |-> NewRow(t[i])]
         /\ writes = [i \in 1..Len(t) |-> 0]
    /\ ret = Pending
    /\ idx = 0
    /\ progress = 0
    /\ cache = <<>>
    /\ phase = "report"
    /\ summary = [state |-> "none"]

\* progress = (idx + 1) / len(df), 'Processing {idx + 1}/{len(df)}': the row
\* count shown for the iteration with index i
ProgressCount_Remaining(i) == Len(df) - i

ProgressCount(i) == i + 1

\* the head of an iteration: the progress bar and the status text
ReportProgress ==
    /\ phase = "report"
    /\ idx < Len(df)
    /\ progress' = ProgressCount(idx)
    /\ phase' = "evaluate"
    /\ UNCHANGED <<source, call, ret, df, idx, cache, writes, summary>>

\* target_price = close_price * (1 + target_pct / 100); the closes of the
\* model are multiples of 100, so the division is exact
TargetPrice(close_price, target_pct) == (close_price * (100 + target_pct)) \div 100
SlPrice(close_price, sl_pct) == (close_price * (100 - sl_pct)) \div 100

\* RowOutcome that leaves a row without a price as it was
RowOutcome_NoElse(row, close_price, check_raises) ==
    IF close_price # None
    THEN [close_price |-> close_price.v,
          result |-> check_target_or_sl_first(source, row.symbol, row.date,
                         TargetPrice(close_price.v, call.target_pct),
                         SlPrice(close_price.v, call.sl_pct), check_raises)]
    ELSE [close_price |-> row.close_price, result |-> row.result]

\* the body of an iteration after get_stock_price returned close_price: the
\* close_price and result written to the row (round(close_price, 2) leaves an
\* integer price as it is)
RowOutcome(row, close_price, check_raises) ==
    IF close_price # None
    THEN [close_price |-> close_price.v,
          result |-> check_target_or_sl_first(source, row.symbol, row.date,
                         TargetPrice(close_price.v, call.target_pct),
                         SlPrice(close_price.v, call.sl_pct), check_raises)]
    ELSE [close_price |-> 0, result |-> "Price Not Found"]

\* the rest of an iteration: get_stock_price through st.cache_data, then the
\* classification, then the row's cells
EvaluateRow ==
    /\ phase = "evaluate"
    /\ \E price_raises \in BOOLEAN, check_raises \in BOOLEAN :
         LET row == df[idx + 1]
             key == [symbol |-> row.symbol, date |-> row.date]
             close_price ==
                 IF key \in DOMAIN cache THEN cache[key]
                 ELSE get_stock_price(source, row.symbol, row.date, price_raises)
             out == RowOutcome(row, close_price, check_raises)
         IN  /\ cache' = [k \in DOMAIN cache \cup {key} |->
                            IF k = key THEN close_price ELSE cache[k]]
             /\ df' = [df EXCEPT ![idx + 1] =
                          [@ EXCEPT !.close_price = out.close_price,
                                    !.result = out.result]]
             /\ writes' = [writes EXCEPT ![idx + 1] = @ + 1]
    /\ idx' = idx + 1
    /\ phase' = "report"
    /\ UNCHANGED <<source, call, ret, progress, summary>>

\* the loop is exhausted: progress_bar.empty(), status_text.empty()
FinishLoop ==
    /\ phase = "report"
    /\ idx = Len(df)
    /\ phase' = "stats"
    /\ UNCHANGED <<source, call, ret, df, idx, progress, cache, writes, summary>>

CountResults(results) == Cardinality({ i \in 1..Len(df) : df[i].result \in results })

\* "Calculate statistics": the four counts, then the three percentages, each
\* a division by total_trades; ZeroDivisionError reaches main's except
ComputeStatistics ==
    /\ phase = "stats"
    /\ LET total_trades == Len(df)
           target_hit == CountResults({"Target Hit"})
           sl_hit == CountResults({"Stop Loss Hit"})
           no_result == CountResults({"Neither Hit", "No Data", "Price Not Found"})
       IN  IF total_trades = 0
           THEN /\ summary' = [state |-> "error"]
                /\ phase' = "error"
           ELSE /\ summary' = [state |-> "counts", total_trades |-> total_trades,
                               target_hit |-> target_hit, sl_hit |-> sl_hit,
                               no_result |-> no_result]
                /\ phase' = "pnl"
    /\ UNCHANGED <<source, call, ret, df, idx, progress, cache, writes>>

\* pd.to_datetime(df['date'], format='mixed') raises on a string that has no
\* reading as a date
ToDatetimeRaises(date) ==
    /\ date.kind = "str"
    /\ ~ValidDate(date.f3.v, date.f2.v, date.f1.v)
    /\ ~ValidDate(date.f3.v, date.f1.v, date.f2.v)
    /\ ~ValidDate(date.f1.v, date.f2.v, date.f3.v)

\* "Time Series Analysis" and "Profit & Loss Analysis"; fractions are kept as
\* numerator and denominator
ComputePnL ==
    /\ phase = "pnl"
    /\ IF \E i \in 1..Len(df) : ToDatetimeRaises(df[i].date)
       THEN /\ summary' = [state |-> "error"]
            /\ phase' = "error"
       ELSE LET total_pnl == summary.target_hit * call.target_pct
                                 - summary.sl_hit * call.sl_pct
                decided == summary.target_hit + summary.sl_hit
            IN  /\ summary' =
                      [state |-> "done", total_trades |-> summary.total_trades,
                       target_hit |-> summary.target_hit, sl_hit |-> summary.sl_hit,
                       no_result |-> summary.no_result, total_pnl |-> total_pnl,
                       win_rate |-> IF decided > 0
                                    THEN <<summary.target_hit * 100, decided>>
                                    ELSE <<0, 1>>,
                       avg_pnl |-> IF summary.total_trades > 0
                                   THEN <<total_pnl, summary.total_trades>>
                                   ELSE <<0, 1>>]
                /\ phase' = "done"
    /\ UNCHANGED <<source, call, ret, df, idx, progress, cache, writes>>

Next ==
    \/ ReportProgress
    \/ EvaluateRow
    \/ FinishLoop
    \/ ComputeStatistics
    \/ ComputePnL

Spec == Init /\ [][Next]_vars

(***************************************************************************)
(* Properties of check_target_or_sl_first (SpecClassify).                  *)
(***************************************************************************)
\* the call returned, its entry date parsed and its fetch did not raise
Classified ==
    /\ ret.state = "returned" /\ ret.by = "check_target_or_sl_first"
    /\ ~ret.raised
    /\ ParseEntryDate(call.entry_date).kind = "dt"

EntryOrd == ToOrdinal(ParseEntryDate(call.entry_date))

\* the series the call scanned
ScannedData ==
    History(source, SymbolFormatted(call.symbol), EntryOrd, EntryOrd + HorizonDays)

Touches(b) == b.High >= call.target_price \/ b.Low <= call.sl_price
TouchesBoth(b) == b.High >= call.target_price /\ b.Low <= call.sl_price

\* positions of the bars after the entry date that touch a threshold
TouchingAfterEntry ==
    { i \in 1..Len(ScannedData) :
        ScannedData[i].date > EntryOrd /\ Touches(ScannedData[i]) }

FirstTouching == CHOOSE i \in TouchingAfterEntry : \A j \in TouchingAfterEntry : i <= j

\* C1: a bar after the entry date that the scan reaches and that touches both
\* thresholds makes the outcome "Target Hit", never "Stop Loss Hit"
C1_TargetBeforeStop ==
    Classified =>
        \A i \in TouchingAfterEntry :
            (i = FirstTouching /\ TouchesBoth(ScannedData[i])) => ret.val = "Target Hit"

C1_Witness ==
    /\ Classified
    /\ TouchingAfterEntry # {}
    /\ TouchesBoth(ScannedData[FirstTouching])
    /\ ret.val = "Target Hit"

\* C2: the outcome is the verdict of the first bar after the entry date that
\* touches a threshold, whatever later bars do; it is "Neither Hit" exactly
\* when the scanned series is non-empty and no bar after the entry date touches
C2_FirstCrossingWins ==
    Classified =>
        /\ TouchingAfterEntry # {} =>
             ret.val = IF ScannedData[FirstTouching].High >= call.target_price
                       THEN "Target Hit" ELSE "Stop Loss Hit"
        /\ ret.val = "Neither Hit" <=>
             (ScannedData # <<>> /\ TouchingAfterEntry = {})

C2_Witness ==
    /\ Classified
    /\ Cardinality(TouchingAfterEntry) >= 2
    /\ \E j \in TouchingAfterEntry :
         /\ j > FirstTouching
         /\ ScannedData[j].High >= call.target_price
         /\ ScannedData[FirstTouching].High < call.target_price
    /\ ret.val = "Stop Loss Hit"

\* C3 as claimed: the outcome is a hit exactly when some bar dated
\* entry_date < d <= entry_date + 30 touches a threshold
C3_HorizonInclusive ==
    Classified =>
        (ret.val \in {"Target Hit", "Stop Loss Hit"} <=>
            \E b \in source :
                b.date > EntryOrd /\ b.date <= EntryOrd + HorizonDays /\ Touches(b))

\* C4 as claimed: no bar dated entry_date + 1 .. entry_date + 30 gives "No Data"
C4_EmptyForwardIsNoData ==
    Classified =>
        ((\A b \in source : ~(b.date > EntryOrd /\ b.date <= EntryOrd + HorizonDays))
            => ret.val = "No Data")

(***************************************************************************)
(* Properties of get_stock_price (SpecPrice).                              *)
(***************************************************************************)
\* the call returned, its date parsed and its fetch did not raise
Resolved ==
    /\ ret.state = "returned" /\ ret.by = "get_stock_price"
    /\ ~ret.raised
    /\ ParseDate(call.date).kind = "dt"

TargetOrd == ToOrdinal(ParseDate(call.date))

Abs(n) == IF n < 0 THEN -n ELSE n

\* the bars of the window the call fetched
WindowBars ==
    { b \in source : b.date >= TargetOrd - WindowDays /\ b.date < TargetOrd + WindowDays }

\* the bar nearest the target date, the earliest of two equidistant ones
NearestBar ==
    CHOOSE b \in WindowBars :
        \A c \in WindowBars :
            \/ Abs(b.date - TargetOrd) < Abs(c.date - TargetOrd)
            \/ (Abs(b.date - TargetOrd) = Abs(c.date - TargetOrd) /\ b.date <= c.date)

\* C5 as claimed: None for a window without bars, else the close of the bar
\* on the target date, else the close of the nearest bar (the earliest of two
\* equidistant ones)
C5_NearestTradingDay ==
    Resolved =>
        ret.val = IF WindowBars = {} THEN None ELSE Price(NearestBar.Close)

(***************************************************************************)
(* Properties of the date parsing (SpecParse).                             *)
(***************************************************************************)
\* the string is A<sep>B<sep>YYYY
DayMonthYearForm(s, sep) ==
    /\ s.s1 = sep /\ s.s2 = sep
    /\ s.f1.n \in {1, 2} /\ s.f2.n \in {1, 2} /\ s.f3.n = 4

DayFirstValid(s) == ValidDate(s.f3.v, s.f2.v, s.f1.v)
MonthFirstValid(s) == ValidDate(s.f3.v, s.f1.v, s.f2.v)

\* C8 as claimed: with either separator a valid day-first reading wins, and an
\* invalid day-first reading with a valid month-first one parses month-first
C8_MonthFirstFallbackBothSeparators ==
    ret.state = "returned" =>
        \A sep \in {"/", "-"} :
            DayMonthYearForm(call.date, sep) =>
                /\ DayFirstValid(call.date) =>
                     ret.val = Datetime(call.date.f3.v, call.date.f2.v, call.date.f1.v)
                /\ (~DayFirstValid(call.date) /\ MonthFirstValid(call.date)) =>
                     ret.val = Datetime(call.date.f3.v, call.date.f1.v, call.date.f2.v)

\* C8, amended: with either separator a valid day-first reading wins; an
\* invalid day-first reading with a valid month-first one parses month-first
\* with slashes and is rejected (the last strptime raises) with dashes
C8_MonthFirstFallbackSlashOnly ==
    ret.state = "returned" =>
        \A sep \in {"/", "-"} :
            DayMonthYearForm(call.date, sep) =>
                /\ DayFirstValid(call.date) =>
                     ret.val = Datetime(call.date.f3.v, call.date.f2.v, call.date.f1.v)
                /\ (~DayFirstValid(call.date) /\ MonthFirstValid(call.date)) =>
                     ret.val = IF sep = "/"
                               THEN Datetime(call.date.f3.v, call.date.f1.v, call.date.f2.v)
                               ELSE Raise

C8_Witness ==
    /\ ret.state = "returned"
    /\ call.date = BaseDateDashUS
    /\ ret.val = Raise

(***************************************************************************)
(* Properties of main (Spec).                                              *)
(***************************************************************************)
InLoop == phase \in {"report", "evaluate"}

\* rows whose final result has been written
Completed == Cardinality({ i \in 1..Len(df) : writes[i] >= 1 })

\* C6: whatever fails in a row, the loop visits every row and writes each row's
\* result exactly once: the table keeps the requests' rows, the rows before
\* the loop index are final, the others untouched, and the loop is left only
\* past the last row, with no row still 'Processing...'
C6_EveryRowGetsOneResult ==
    /\ Len(df) = Len(call.requests)
    /\ \A i \in 1..Len(df) :
         /\ df[i].symbol = call.requests[i].symbol
         /\ df[i].date = call.requests[i].date
         /\ i <= idx => (writes[i] = 1 /\ df[i].result # "Processing...")
         /\ i > idx => (writes[i] = 0 /\ df[i].result = "Processing...")
    /\ ~InLoop => idx = Len(df)

C6_Witness ==
    /\ phase = "stats"
    /\ Len(df) = 2
    /\ df[1].result \in {"Price Not Found", "Error"}
    /\ df[2].result = "Target Hit"

\* C7 as claimed: an empty table ends without error, with every count, the
\* total P&L and the win rate zero
C7_EmptyTableSummary ==
    (Len(df) = 0 /\ phase \in {"done", "error"}) =>
        /\ phase = "done"
        /\ summary.state = "done"
        /\ summary.total_trades = 0 /\ summary.target_hit = 0
        /\ summary.sl_hit = 0 /\ summary.no_result = 0
        /\ summary.total_pnl = 0 /\ summary.win_rate[1] = 0

\* C9 as claimed: the reported row count never exceeds the completed rows
C9_ProgressReflectsCompleted == progress <= Completed

\* C9, amended: the reported row count never decreases and counts the rows
\* begun: it is the number of completed rows, plus one while a row is being
\* evaluated
C9_ProgressCountsStartedRows ==
    /\ [][progress' >= progress]_vars
    /\ [](progress = IF phase = "evaluate" THEN Completed + 1 ELSE Completed)

C9_Witness ==
    /\ phase = "evaluate"
    /\ progress = 2
    /\ Completed = 1

\* C10 as claimed: once the counts are computed, target_hit + sl_hit +
\* no_result is total_trades
C10_CountsPartitionTrades ==
    summary.state \in {"counts", "done"} =>
        summary.target_hit + summary.sl_hit + summary.no_result = summary.total_trades

====
